---- MODULE Spec2Model ----
(***************************************************************************)
(* Model of the CFG container and the CFG builder of                       *)
(* src/src/intermediate_representation/cfg.py.                             *)
(*                                                                         *)
(* A statement list is a TLA+ sequence; the code's 0-based list index idx  *)
(* is kept as it is in Python (At(st, idx) reads ordered[idx]), and the    *)
(* graph is keyed by statement ids (sid), as in the code.  Successor and   *)
(* predecessor collections are lists, as in the code (append / remove).    *)
(***************************************************************************)
EXTENDS Integers, Sequences, FiniteSets, TLC

VARIABLES
    stmts,          \* the statement list handed to build_cfg
    pc,             \* "input": not built yet; "built": build_cfg returned; "raised": build_cfg raised
    nodes,          \* CFG.nodes: the set of node ids (keys of the dict)
    entry,          \* CFG.entry
    exit,           \* CFG.exit
    succ,           \* node id -> CFGNode.successors (a list)
    pred,           \* node id -> CFGNode.predecessors (a list)
    context_stack,  \* build_cfg's context_stack (list of indices)
    scan_idx,       \* position of build_cfg's last loop (the jump scan)
    call,           \* the last add_edge / remove_edge call made on the returned CFG
    edits,          \* number of add_edge / remove_edge calls made on the returned CFG
    dataflow,       \* the analysis call made on the returned CFG, with its outcome
    parser          \* the frame of the producer's loop: function, input, position, sid, seen

vars == <<stmts, pc, nodes, entry, exit, succ, pred, context_stack, scan_idx, call, edits,
          dataflow, parser>>

----------------------------------------------------------------------------
(* Python values *)

\* Python's None where an index (int | None) is expected.
None == -1

\* A falsy str | None (label / target absent).
NoStr == ""

Stmt(kind, label, target, targets, synthetic) ==
    [sid |-> 0, kind |-> kind, label |-> label, target |-> target,
     targets |-> targets, synthetic |-> synthetic]

\* A statement of the given kind with no control metadata.
Plain(kind) == Stmt(kind, NoStr, NoStr, <<>>, FALSE)

\* parse_source / _parse_jimple / _parse_clang_ast: sid starts at 1 and is
\* incremented after each appended statement.
AssignSids(seq) == [i \in 1..Len(seq) |-> [seq[i] EXCEPT !.sid = i]]

\* ordered[idx], idx 0-based.
At(st, idx) == st[idx + 1]

\* element membership / first-occurrence removal on Python lists
InList(x, l) == \E i \in 1..Len(l) : l[i] = x

FirstPos(x, l) == CHOOSE i \in 1..Len(l) : l[i] = x /\ \A j \in 1..(i - 1) : l[j] # x

ListRemove(l, x) ==
    LET p == FirstPos(x, l)
    IN  SubSeq(l, 1, p - 1) \o SubSeq(l, p + 1, Len(l))

----------------------------------------------------------------------------
(* class CFG.  A graph value g is [nodes, succ, pred, err]; err records    *)
(* that a KeyError was raised, after which the caller's remaining          *)
(* statements do not run.                                                  *)

\* add_edge recording the successor only.
add_edge_successor_only(g, source, target) ==
    IF g.err THEN g
    ELSE IF source \notin g.nodes \/ target \notin g.nodes
    THEN [g EXCEPT !.err = TRUE]
    ELSE IF ~InList(target, g.succ[source])
    THEN [g EXCEPT !.succ[source] = Append(@, target)]
    ELSE g

\* add_edge that returns without raising on an unknown id.
add_edge_silent(g, source, target) ==
    IF g.err THEN g
    ELSE IF source \notin g.nodes \/ target \notin g.nodes
    THEN g
    ELSE LET s1 == IF ~InList(target, g.succ[source])
                   THEN [g.succ EXCEPT ![source] = Append(@, target)]
                   ELSE g.succ
             p1 == IF ~InList(source, g.pred[target])
                   THEN [g.pred EXCEPT ![target] = Append(@, source)]
                   ELSE g.pred
         IN  [g EXCEPT !.succ = s1, !.pred = p1]

\* add_edge that appends without looking for the edge.
add_edge_always_append(g, source, target) ==
    IF g.err THEN g
    ELSE IF source \notin g.nodes \/ target \notin g.nodes
    THEN [g EXCEPT !.err = TRUE]
    ELSE [g EXCEPT !.succ[source] = Append(@, target), !.pred[target] = Append(@, source)]

add_edge(g, source, target) ==
    IF g.err THEN g
    ELSE IF source \notin g.nodes \/ target \notin g.nodes
    THEN [g EXCEPT !.err = TRUE]
    ELSE LET s1 == IF ~InList(target, g.succ[source])
                   THEN [g.succ EXCEPT ![source] = Append(@, target)]
                   ELSE g.succ
             p1 == IF ~InList(source, g.pred[target])
                   THEN [g.pred EXCEPT ![target] = Append(@, source)]
                   ELSE g.pred
         IN  [g EXCEPT !.succ = s1, !.pred = p1]

remove_edge(g, source, target) ==
    IF g.err THEN g
    ELSE IF source \notin g.nodes \/ target \notin g.nodes
    THEN g
    ELSE LET s1 == IF InList(target, g.succ[source])
                   THEN [g.succ EXCEPT ![source] = ListRemove(@, target)]
                   ELSE g.succ
             p1 == IF InList(source, g.pred[target])
                   THEN [g.pred EXCEPT ![target] = ListRemove(@, source)]
                   ELSE g.pred
         IN  [g EXCEPT !.succ = s1, !.pred = p1]

----------------------------------------------------------------------------
(* Helpers of build_cfg *)

\* An insertion-ordered dict as a list of <<key, value>>.
DictHas(d, k) == \E i \in 1..Len(d) : d[i][1] = k

DictGet(d, k, default) ==
    IF DictHas(d, k) THEN d[CHOOSE i \in 1..Len(d) : d[i][1] = k][2] ELSE default

DictPut(d, k, v) ==
    IF DictHas(d, k)
    THEN [i \in 1..Len(d) |-> IF d[i][1] = k THEN <<k, v>> ELSE d[i]]
    ELSE Append(d, <<k, v>>)

RECURSIVE BlockPairsFrom(_, _, _, _)
BlockPairsFrom(st, idx, stack, pairs) ==
    IF idx >= Len(st) THEN pairs
    ELSE IF At(st, idx).kind = "block_start"
    THEN BlockPairsFrom(st, idx + 1, Append(stack, idx), pairs)
    ELSE IF At(st, idx).kind = "block_end" /\ Len(stack) > 0
    THEN BlockPairsFrom(st, idx + 1, SubSeq(stack, 1, Len(stack) - 1),
                        DictPut(pairs, stack[Len(stack)], idx))
    ELSE BlockPairsFrom(st, idx + 1, stack, pairs)

_build_block_pairs(st) == BlockPairsFrom(st, 0, <<>>, <<>>)

_previous_non_synthetic(index, st) ==
    LET c == {i \in 0..(index - 1) : ~At(st, i).synthetic}
    IN  IF c = {} THEN None ELSE CHOOSE i \in c : \A j \in c : j <= i

ControlInfo(kind, body_start, body_end, after_body) ==
    [kind |-> kind, body_start |-> body_start, body_end |-> body_end,
     after_body |-> after_body]

_body_range(index, st, block_pairs) ==
    IF index + 1 >= Len(st)
    THEN ControlInfo(At(st, index).kind, None, None, None)
    ELSE LET start == index + 1
             end   == IF At(st, start).kind = "block_start"
                      THEN DictGet(block_pairs, start, start)
                      ELSE start
             after == IF end + 1 < Len(st) THEN end + 1 ELSE None
         IN  ControlInfo(At(st, index).kind, start, end, after)

ControlKinds == {"if", "else_if", "else", "while", "for", "switch", "do"}

NoFallthroughKinds == {"return", "break", "continue", "goto"}

----------------------------------------------------------------------------
(* build_cfg, pass by pass.  Each pass is the code's `for idx, stmt in     *)
(* enumerate(ordered)` loop, run from idx to the end on the graph g; a     *)
(* raised KeyError (g.err) ends the loop.  XAt is the loop body at idx.    *)

\* Default sequential edges: zip(ordered, ordered[1:]).
SequentialEdgeAt(st, idx, g) ==
    IF At(st, idx).kind \in NoFallthroughKinds THEN g
    ELSE add_edge(g, At(st, idx).sid, At(st, idx + 1).sid)

RECURSIVE SequentialEdges(_, _, _)
SequentialEdges(st, idx, g) ==
    IF idx + 1 >= Len(st) \/ g.err THEN g
    ELSE SequentialEdges(st, idx + 1, SequentialEdgeAt(st, idx, g))

\* block_owner.get(start_idx): the owner recorded for a paired block_start.
block_owner(st, start_idx) == _previous_non_synthetic(start_idx, st)

\* do_tail_map / do_tail_set, first loop: the body for the k-th item of
\* block_pairs.items().  dt is [map |-> insertion-ordered dict, set |-> set].
DoTailByBlockAt(st, bp, k, dt) ==
    LET start_idx == bp[k][1]
        end_idx   == bp[k][2]
        owner_idx == block_owner(st, start_idx)
        tail_idx  == end_idx + 1
    IN  IF owner_idx = None THEN dt
        ELSE IF At(st, owner_idx).kind # "do" THEN dt
        ELSE IF tail_idx < Len(st) /\ At(st, tail_idx).kind = "while"
        THEN [map |-> DictPut(dt.map, owner_idx, tail_idx), set |-> dt.set \cup {tail_idx}]
        ELSE dt

\* dt after the first k items of block_pairs.
RECURSIVE DoTailsByBlock(_, _, _)
DoTailsByBlock(st, bp, k) ==
    IF k = 0 THEN [map |-> <<>>, set |-> {}]
    ELSE DoTailByBlockAt(st, bp, k, DoTailsByBlock(st, bp, k - 1))

\* do_tail_map / do_tail_set, second loop: the body for statement idx.
DoTailByRangeAt(st, bp, idx, dt) ==
    IF At(st, idx).kind # "do" THEN dt
    ELSE LET info == _body_range(idx, st, bp)
         IN  IF info.after_body = None THEN dt
             ELSE IF At(st, info.after_body).kind = "while"
             THEN [map |-> DictPut(dt.map, idx, info.after_body),
                   set |-> dt.set \cup {info.after_body}]
             ELSE dt

\* dt after the second loop has run over the first n statements.
RECURSIVE DoTailsByRange(_, _, _)
DoTailsByRange(st, bp, n) ==
    IF n = 0 THEN DoTailsByBlock(st, bp, Len(bp))
    ELSE DoTailByRangeAt(st, bp, n - 1, DoTailsByRange(st, bp, n - 1))

DoTails(st, bp) == DoTailsByRange(st, bp, Len(st))

\* Branch edges that are added only towards an else / else_if header.
BranchEdgeAt_else_only(st, bp, idx, g) ==
    IF At(st, idx).kind \notin {"if", "else_if"} THEN g
    ELSE LET info == _body_range(idx, st, bp)
         IN  IF info.after_body = None THEN g
             ELSE IF At(st, info.after_body).kind \notin {"else", "else_if"} THEN g
             ELSE add_edge(g, At(st, idx).sid, At(st, info.after_body).sid)

\* Branch edges for if/else-if.
BranchEdgeAt(st, bp, idx, g) ==
    IF At(st, idx).kind \notin {"if", "else_if"} THEN g
    ELSE LET info == _body_range(idx, st, bp)
         IN  IF info.after_body = None THEN g
             ELSE add_edge(g, At(st, idx).sid, At(st, info.after_body).sid)

RECURSIVE BranchEdges(_, _, _, _)
BranchEdges(st, bp, idx, g) ==
    IF idx >= Len(st) \/ g.err THEN g
    ELSE BranchEdges(st, bp, idx + 1, BranchEdgeAt(st, bp, idx, g))

ElseKinds == {"else", "else_if"}

RECURSIVE ElseChainWalk(_, _, _, _)
ElseChainWalk(st, bp, current, join) ==
    IF current = None \/ At(st, current).kind \notin ElseKinds THEN join
    ELSE LET j == _body_range(current, st, bp).after_body
         IN  IF j = None THEN j
             ELSE IF j < Len(st) /\ At(st, j).kind \in ElseKinds
             THEN ElseChainWalk(st, bp, j, j)
             ELSE j

\* A join search that stops after the first else / else-if body.
_find_else_chain_join_first_body(st, bp, start_idx) ==
    IF At(st, start_idx).kind \notin ElseKinds THEN None
    ELSE _body_range(start_idx, st, bp).after_body

_find_else_chain_join(st, bp, start_idx) == ElseChainWalk(st, bp, start_idx, None)

\* Rewiring that removes the fall-through edge and adds no join edge.
ElseRewireAt_remove_only(st, bp, kinds, idx, g) ==
    IF At(st, idx).kind \notin kinds THEN g
    ELSE LET info == _body_range(idx, st, bp)
         IN  IF info.body_end = None \/ info.after_body = None THEN g
             ELSE IF At(st, info.after_body).kind \notin ElseKinds THEN g
             ELSE remove_edge(g, At(st, info.body_end).sid, At(st, info.after_body).sid)

\* "Ensure if/else bodies do not fall through into subsequent else blocks":
\* the loop body shared by the {if, else_if} loop and the {else_if, else} loop.
ElseRewireAt(st, bp, kinds, idx, g) ==
    IF At(st, idx).kind \notin kinds THEN g
    ELSE LET info == _body_range(idx, st, bp)
         IN  IF info.body_end = None \/ info.after_body = None THEN g
             ELSE IF At(st, info.after_body).kind \notin ElseKinds THEN g
             ELSE LET join_idx == _find_else_chain_join(st, bp, info.after_body)
                  IN  IF join_idx = None THEN g
                      ELSE add_edge(remove_edge(g, At(st, info.body_end).sid,
                                                   At(st, info.after_body).sid),
                                    At(st, info.body_end).sid, At(st, join_idx).sid)

RECURSIVE ElseRewirePass(_, _, _, _, _)
ElseRewirePass(st, bp, kinds, idx, g) ==
    IF idx >= Len(st) \/ g.err THEN g
    ELSE ElseRewirePass(st, bp, kinds, idx + 1, ElseRewireAt(st, bp, kinds, idx, g))

\* Loop edges with the exit edge only: no back-edge, body end left alone.
LoopEdgesAt_exit_only(st, bp, do_tail_set, idx, g) ==
    IF At(st, idx).kind \notin {"while", "for"} \/ idx \in do_tail_set THEN g
    ELSE LET info == _body_range(idx, st, bp)
         IN  IF info.body_start = None \/ info.body_end = None \/ info.after_body = None
             THEN g
             ELSE add_edge(g, At(st, idx).sid, At(st, info.after_body).sid)

\* Loop edges for while/for.
LoopEdgesAt(st, bp, do_tail_set, idx, g) ==
    IF At(st, idx).kind \notin {"while", "for"} \/ idx \in do_tail_set THEN g
    ELSE LET info == _body_range(idx, st, bp)
         IN  IF info.body_start = None \/ info.body_end = None THEN g
             ELSE LET g1 == IF info.after_body # None
                            THEN add_edge(g, At(st, idx).sid, At(st, info.after_body).sid)
                            ELSE g
                      g2 == add_edge(g1, At(st, info.body_end).sid, At(st, idx).sid)
                  IN  IF info.after_body # None
                      THEN remove_edge(g2, At(st, info.body_end).sid,
                                           At(st, info.after_body).sid)
                      ELSE g2

RECURSIVE LoopEdges(_, _, _, _, _)
LoopEdges(st, bp, do_tail_set, idx, g) ==
    IF idx >= Len(st) \/ g.err THEN g
    ELSE LoopEdges(st, bp, do_tail_set, idx + 1, LoopEdgesAt(st, bp, do_tail_set, idx, g))

\* Switch edges to cases: the inner `for case_idx in range(...)`.
RECURSIVE CaseEdges(_, _, _, _, _)
CaseEdges(st, sw, case_idx, last, g) ==
    IF case_idx > last \/ g.err THEN g
    ELSE IF At(st, case_idx).kind \in {"case", "default"}
    THEN CaseEdges(st, sw, case_idx + 1, last, add_edge(g, At(st, sw).sid, At(st, case_idx).sid))
    ELSE CaseEdges(st, sw, case_idx + 1, last, g)

\* Switch edges with the no-match exit only: no edge to case / default.
SwitchEdgesAt_exit_only(st, bp, idx, g) ==
    IF At(st, idx).kind # "switch" THEN g
    ELSE LET info == _body_range(idx, st, bp)
         IN  IF info.body_start = None \/ info.body_end = None \/ info.after_body = None
             THEN g
             ELSE add_edge(g, At(st, idx).sid, At(st, info.after_body).sid)

SwitchEdgesAt(st, bp, idx, g) ==
    IF At(st, idx).kind # "switch" THEN g
    ELSE LET info == _body_range(idx, st, bp)
         IN  IF info.body_start = None \/ info.body_end = None THEN g
             ELSE LET g1 == IF info.after_body # None
                            THEN add_edge(g, At(st, idx).sid, At(st, info.after_body).sid)
                            ELSE g
                  IN  CaseEdges(st, idx, info.body_start, info.body_end, g1)

RECURSIVE SwitchEdges(_, _, _, _)
SwitchEdges(st, bp, idx, g) ==
    IF idx >= Len(st) \/ g.err THEN g
    ELSE SwitchEdges(st, bp, idx + 1, SwitchEdgesAt(st, bp, idx, g))

\* Do-while edges from tail condition back to body start: the body for the
\* k-th item of do_tail_map.items().
DoWhileEdgeAt(st, bp, do_tail_map, k, g) ==
    LET do_idx   == do_tail_map[k][1]
        tail_idx == do_tail_map[k][2]
        info     == _body_range(do_idx, st, bp)
    IN  IF info.body_start = None THEN g
        ELSE add_edge(g, At(st, tail_idx).sid, At(st, info.body_start).sid)

RECURSIVE DoWhileEdges(_, _, _, _, _)
DoWhileEdges(st, bp, do_tail_map, k, g) ==
    IF k > Len(do_tail_map) \/ g.err THEN g
    ELSE DoWhileEdges(st, bp, do_tail_map, k + 1, DoWhileEdgeAt(st, bp, do_tail_map, k, g))

----------------------------------------------------------------------------
(* build_cfg, "Break/continue/goto handling with a context stack" *)

\* label_map.get(name): the dict comprehension keeps the last label statement
\* of a name; statements with a falsy label are left out.
label_map_get(st, name) ==
    LET c == {i \in 0..(Len(st) - 1) :
                 At(st, i).kind = "label" /\ At(st, i).label # NoStr /\ At(st, i).label = name}
    IN  IF c = {} THEN None ELSE At(st, CHOOSE i \in c : \A j \in c : j <= i).sid

loop_kinds == {"while", "for", "do"}

break_kinds == loop_kinds \cup {"switch"}

\* The exit a `break` takes out of the context ctx_idx.
BreakExit(st, bp, do_tail_map, ctx_idx) ==
    IF At(st, ctx_idx).kind = "do"
    THEN LET tail_idx == DictGet(do_tail_map, ctx_idx, None)
         IN  IF tail_idx # None
             THEN (IF tail_idx + 1 < Len(st) THEN tail_idx + 1 ELSE None)
             ELSE _body_range(ctx_idx, st, bp).after_body
    ELSE _body_range(ctx_idx, st, bp).after_body

\* `for ctx_idx in reversed(context_stack)` of the break branch, from position k down.
RECURSIVE BreakTarget(_, _, _, _, _)
BreakTarget(st, bp, do_tail_map, stack, k) ==
    IF k < 1 THEN None
    ELSE IF At(st, stack[k]).kind \in break_kinds
    THEN BreakExit(st, bp, do_tail_map, stack[k])
    ELSE BreakTarget(st, bp, do_tail_map, stack, k - 1)

\* `for ctx_idx in reversed(context_stack)` of the continue branch.
RECURSIVE ContinueTarget(_, _, _, _)
ContinueTarget(st, do_tail_map, stack, k) ==
    IF k < 1 THEN None
    ELSE IF At(st, stack[k]).kind \in loop_kinds
    THEN DictGet(do_tail_map, stack[k], stack[k])
    ELSE ContinueTarget(st, do_tail_map, stack, k - 1)

\* One label lookup and edge of goto / if_goto / switch_goto.
LabelEdge(st, g, sid, target) ==
    LET target_sid == label_map_get(st, target)
    IN  IF target_sid # None THEN add_edge(g, sid, target_sid) ELSE g

RECURSIVE SwitchGotoEdges(_, _, _, _, _)
SwitchGotoEdges(st, g, sid, targets, k) ==
    IF k > Len(targets) \/ g.err THEN g
    ELSE SwitchGotoEdges(st, LabelEdge(st, g, sid, targets[k]), sid, targets, k + 1)

\* The closing `while context_stack and ... body_end == idx: pop()`.
RECURSIVE PopClosed(_, _, _, _)
PopClosed(st, bp, idx, stack) ==
    IF Len(stack) > 0
       /\ _body_range(stack[Len(stack)], st, bp).body_end # None
       /\ _body_range(stack[Len(stack)], st, bp).body_end = idx
    THEN PopClosed(st, bp, idx, SubSeq(stack, 1, Len(stack) - 1))
    ELSE stack

\* The push at the top of the loop body ("idx in control_info": the control kinds).
PushContext(st, idx, stack) ==
    IF At(st, idx).kind \in break_kinds /\ At(st, idx).kind \in ControlKinds
    THEN Append(stack, idx)
    ELSE stack

\* The edges one iteration adds, on the stack as it is after the push.
JumpEdges(st, bp, do_tail_map, idx, stack, g) ==
    LET stmt == At(st, idx)
    IN  IF stmt.kind = "break"
        THEN LET target_idx == BreakTarget(st, bp, do_tail_map, stack, Len(stack))
             IN  IF target_idx # None THEN add_edge(g, stmt.sid, At(st, target_idx).sid) ELSE g
        ELSE IF stmt.kind = "continue"
        THEN LET target_idx == ContinueTarget(st, do_tail_map, stack, Len(stack))
             IN  IF target_idx # None THEN add_edge(g, stmt.sid, At(st, target_idx).sid) ELSE g
        ELSE IF stmt.kind = "goto" /\ stmt.target # NoStr
        THEN LabelEdge(st, g, stmt.sid, stmt.target)
        ELSE IF stmt.kind = "if_goto" /\ stmt.target # NoStr
        THEN LabelEdge(st, g, stmt.sid, stmt.target)
        ELSE IF stmt.kind = "switch_goto" /\ Len(stmt.targets) > 0
        THEN SwitchGotoEdges(st, g, stmt.sid, stmt.targets, 1)
        ELSE g

\* One iteration of the scan: [g, stack] after statement idx.
ScanStep(st, bp, do_tail_map, idx, stack, g) ==
    LET pushed == PushContext(st, idx, stack)
    IN  [g     |-> JumpEdges(st, bp, do_tail_map, idx, pushed, g),
         stack |-> PopClosed(st, bp, idx, pushed)]

RECURSIVE Scan(_, _, _, _, _, _)
Scan(st, bp, do_tail_map, idx, stack, g) ==
    IF idx >= Len(st) \/ g.err THEN [g |-> g, stack |-> stack]
    ELSE LET r == ScanStep(st, bp, do_tail_map, idx, stack, g)
         IN  Scan(st, bp, do_tail_map, idx + 1, r.stack, r.g)

----------------------------------------------------------------------------
(* build_cfg as a whole *)

\* The graph before the jump scan: nodes, sequential edges and the structured
\* passes in the code's order.
Structured(st, bp, dt) ==
    LET sids == {st[i].sid : i \in 1..Len(st)}
        g0 == [nodes |-> sids, succ |-> [n \in sids |-> <<>>],
               pred |-> [n \in sids |-> <<>>], err |-> FALSE]
        g1 == SequentialEdges(st, 0, g0)
        g2 == BranchEdges(st, bp, 0, g1)
        g3 == ElseRewirePass(st, bp, {"if", "else_if"}, 0, g2)
        g4 == ElseRewirePass(st, bp, {"else_if", "else"}, 0, g3)
        g5 == LoopEdges(st, bp, dt.set, 0, g4)
        g6 == SwitchEdges(st, bp, 0, g5)
    IN  DoWhileEdges(st, bp, dt.map, 1, g6)

\* build_cfg without the `if not nodes: return` guard: ordered[0] raises on
\* an empty list.
build_cfg_without_empty_guard(st) ==
    IF Len(st) = 0
    THEN [nodes |-> {}, entry |-> None, exit |-> None, succ |-> <<>>, pred |-> <<>>,
          err |-> TRUE, stack |-> <<>>]
    ELSE LET bp == _build_block_pairs(st)
             dt == DoTails(st, bp)
             r  == Scan(st, bp, dt.map, 0, <<>>, Structured(st, bp, dt))
         IN  [nodes |-> r.g.nodes, entry |-> st[1].sid, exit |-> st[Len(st)].sid,
              succ |-> r.g.succ, pred |-> r.g.pred, err |-> r.g.err, stack |-> r.stack]

\* build_cfg taking the last statement that is no block marker as exit.
build_cfg_exit_skips_markers(st) ==
    IF Len(st) = 0
    THEN [nodes |-> {}, entry |-> None, exit |-> None, succ |-> <<>>, pred |-> <<>>,
          err |-> FALSE, stack |-> <<>>]
    ELSE LET bp == _build_block_pairs(st)
             dt == DoTails(st, bp)
             r  == Scan(st, bp, dt.map, 0, <<>>, Structured(st, bp, dt))
             last == _previous_non_synthetic(Len(st), st)
         IN  [nodes |-> r.g.nodes, entry |-> st[1].sid,
              exit |-> IF last = None THEN None ELSE At(st, last).sid,
              succ |-> r.g.succ, pred |-> r.g.pred, err |-> r.g.err, stack |-> r.stack]

\* The returned CFG (with the scan's final stack), or err when an add_edge raised.
build_cfg(st) ==
    IF Len(st) = 0
    THEN [nodes |-> {}, entry |-> None, exit |-> None, succ |-> <<>>, pred |-> <<>>,
          err |-> FALSE, stack |-> <<>>]
    ELSE LET bp == _build_block_pairs(st)
             dt == DoTails(st, bp)
             r  == Scan(st, bp, dt.map, 0, <<>>, Structured(st, bp, dt))
         IN  [nodes |-> r.g.nodes, entry |-> st[1].sid, exit |-> st[Len(st)].sid,
              succ |-> r.g.succ, pred |-> r.g.pred, err |-> r.g.err, stack |-> r.stack]

----------------------------------------------------------------------------
(* src/src/analysis: the data-flow solver and the two analyses built on    *)
(* it.  A call's outcome is [raised, result]; result is a DataFlowResult   *)
(* or NoResult when the call raised.                                       *)

DataFlowResult(in_sets, out_sets) == [in_sets |-> in_sets, out_sets |-> out_sets]

NoResult == [in_sets |-> <<>>, out_sets |-> <<>>]

\* raise NotImplementedError(...)
NotImplementedError == [raised |-> TRUE, result |-> NoResult]

\* solve_worklist: the body is the docstring and the raise.
solve_worklist(ns, predecessors, successors, direction, transfer) == NotImplementedError

\* compute_reaching_definitions: the body is the docstring and the raise.
compute_reaching_definitions(cfg) == NotImplementedError

\* compute_live_variables: the body is the docstring and the raise.
compute_live_variables(cfg) == NotImplementedError

\* class PointerAnalysisResult: points_to and alias_sets, each a dict from a
\* name to a set of names (a function here).
PointerAnalysisResult(points_to, alias_sets) ==
    [points_to |-> points_to, alias_sets |-> alias_sets]

\* raise NotImplementedError(...) in a function that returns a
\* PointerAnalysisResult.
PointerNotImplementedError ==
    [raised |-> TRUE, result |-> PointerAnalysisResult(<<>>, <<>>)]

\* compute_pointer_analysis: the body is the docstring and the raise.
compute_pointer_analysis(program) == PointerNotImplementedError

----------------------------------------------------------------------------
(* src/src/parsing: the loops of the three producers that build the        *)
(* statement list and number it.  One operator per loop iteration; an      *)
(* iteration yields the next sid and the statement list.                   *)

\* _parse_statement(sid, text): the kind is read off the text (a text is
\* given here by the kind it is recognised as); block markers are synthetic.
_parse_statement(sid, text) ==
    [Stmt(text.kind, NoStr, NoStr, <<>>, text.kind \in {"block_start", "block_end"})
        EXCEPT !.sid = sid]

\* An iteration of parse_source that also counts the tokens it drops.
parse_source_iter_counting_dropped(token, sid, statements) ==
    IF token.blank THEN [sid |-> sid + 1, statements |-> statements]
    ELSE [sid |-> sid + 1, statements |-> Append(statements, _parse_statement(sid, token))]

\* parse_source, one iteration of `for token in expanded`.
parse_source_iter(token, sid, statements) ==
    IF token.blank THEN [sid |-> sid, statements |-> statements]
    ELSE [sid |-> sid + 1, statements |-> Append(statements, _parse_statement(sid, token))]

\* _parse_jimple: the index after the line that closes a tableswitch /
\* lookupswitch block opened before index i (the end of the input when no
\* line is "}").
RECURSIVE SwitchBlockEnd(_, _)
SwitchBlockEnd(lines, i) ==
    IF i >= Len(lines) THEN i
    ELSE IF At(lines, i).cls = "close" THEN i + 1
    ELSE SwitchBlockEnd(lines, i + 1)

\* The targets of the `goto` lines at indices i..(end - 1).
RECURSIVE SwitchBlockTargets(_, _, _)
SwitchBlockTargets(lines, i, end) ==
    IF i >= end THEN <<>>
    ELSE (IF At(lines, i).cls \in {"goto", "if_goto"} THEN <<At(lines, i).name>> ELSE <<>>)
         \o SwitchBlockTargets(lines, i + 1, end)

\* _parse_jimple, one iteration of `while i < len(lines)` for the line at
\* index i: [i, sid, statements] after it.
jimple_iter(lines, i, sid, statements) ==
    LET raw == At(lines, i)
        one(stmt) == [i |-> i + 1, sid |-> sid + 1,
                      statements |-> Append(statements, [stmt EXCEPT !.sid = sid])]
    IN  IF raw.cls \in {"blank", "open", "close"}
        THEN [i |-> i + 1, sid |-> sid, statements |-> statements]
        ELSE IF raw.cls = "label" THEN one(Stmt("label", raw.name, NoStr, <<>>, FALSE))
        ELSE IF raw.cls = "if_goto" THEN one(Stmt("if_goto", NoStr, raw.name, <<>>, FALSE))
        ELSE IF raw.cls = "goto" THEN one(Stmt("goto", NoStr, raw.name, <<>>, FALSE))
        ELSE IF raw.cls = "switch"
        THEN LET end == SwitchBlockEnd(lines, i + 1)
             IN  [i |-> end, sid |-> sid + 1,
                  statements |-> Append(statements,
                      [Stmt("switch_goto", NoStr, NoStr,
                            SwitchBlockTargets(lines, i + 1, end), FALSE)
                          EXCEPT !.sid = sid])]
        ELSE one(Plain(raw.cls))

\* collected.sort(key=lambda item: item.key): a stable sort.
RECURSIVE InsertByKey(_, _)
InsertByKey(sorted, item) ==
    IF sorted = <<>> THEN <<item>>
    ELSE IF sorted[Len(sorted)].key <= item.key THEN Append(sorted, item)
    ELSE Append(InsertByKey(SubSeq(sorted, 1, Len(sorted) - 1), item), sorted[Len(sorted)])

RECURSIVE SortByKey(_)
SortByKey(collected) ==
    IF collected = <<>> THEN <<>>
    ELSE InsertByKey(SortByKey(SubSeq(collected, 1, Len(collected) - 1)),
                     collected[Len(collected)])

\* _parse_clang_ast, one iteration of `for item in collected`:
\* [sid, seen, statements] after it.
clang_iter(item, sid, seen, statements) ==
    IF <<item.key, item.kind, item.text>> \in seen
    THEN [sid |-> sid, seen |-> seen, statements |-> statements]
    ELSE [sid |-> sid + 1,
          seen |-> seen \cup {<<item.key, item.kind, item.text>>},
          statements |-> Append(statements,
              [Stmt(item.kind, NoStr, NoStr, <<>>, item.kind \in {"block_start", "block_end"})
                  EXCEPT !.sid = sid])]

----------------------------------------------------------------------------
(* Statement lists handed to build_cfg *)

\* Statement constructors as the producers emit them (parser.py
\* _parse_statement, java_soot.py _parse_jimple, cpp_clang.py _emit): block
\* markers are synthetic; "stmt" stands for every kind the builder treats as
\* plain (decl, assign, expr, invoke, identity, throw, func).
BlockStart == Stmt("block_start", NoStr, NoStr, <<>>, TRUE)

BlockEnd == Stmt("block_end", NoStr, NoStr, <<>>, TRUE)

Label(name) == Stmt("label", name, NoStr, <<>>, FALSE)

Goto(name) == Stmt("goto", NoStr, name, <<>>, FALSE)

IfGoto(name) == Stmt("if_goto", NoStr, name, <<>>, FALSE)

SwitchGoto(names) == Stmt("switch_goto", NoStr, NoStr, names, FALSE)

X == Plain("stmt")

\* Longest arbitrary statement list (any kinds in any order).
MaxLen == 3

\* Longest body placed between the braces of a loop, do-while or switch.
MaxBody == 4

\* Longest braced body of an if / else-if / else branch.
MaxBranch == 1

\* All sequences over S of length 0..n.
RECURSIVE SeqsUpTo(_, _)
SeqsUpTo(S, n) ==
    IF n = 0 THEN {<<>>}
    ELSE LET shorter == SeqsUpTo(S, n - 1)
         IN  shorter \cup {Append(q, x) : q \in {r \in shorter : Len(r) = n - 1}, x \in S}

\* Nesting depth after the first k statements of q; -1 once a block_end had
\* no open block_start.
RECURSIVE Depth(_, _)
Depth(q, k) ==
    IF k = 0 THEN 0
    ELSE LET d == Depth(q, k - 1)
         IN  IF d < 0 THEN -1
             ELSE IF q[k].kind = "block_start" THEN d + 1
             ELSE IF q[k].kind = "block_end" THEN d - 1
             ELSE d

Balanced(q) == Depth(q, Len(q)) = 0

\* Structured kinds in any order, malformed lists included.
StructuredStatements ==
    {Plain(k) : k \in {"stmt", "if", "else_if", "else", "while", "do", "switch",
                       "case", "break", "continue", "return"}}
    \cup {BlockStart, BlockEnd}

\* Labels and jumps: "L" and "K" may be defined by label statements, "M" never is.
JumpStatements ==
    {Plain("while"), Plain("return"), Label("L"), Label("K"), Goto("L"), Goto("M"),
     IfGoto("K"), SwitchGoto(<<"L", "M", "K">>)}

AnyPrograms == SeqsUpTo(StructuredStatements, MaxLen) \cup SeqsUpTo(JumpStatements, MaxLen)

\* Loop, do-while and switch statements with a braced body, with and without
\* a statement after them.
LoopBodyStatements ==
    {X, Plain("break"), Plain("continue"), Plain("while"), Plain("switch"), Plain("if"),
     BlockStart, BlockEnd}

SwitchBodyStatements ==
    {X, Plain("break"), Plain("case"), Plain("default"), BlockStart, BlockEnd}

LoopBodies == {q \in SeqsUpTo(LoopBodyStatements, MaxBody) : Balanced(q)}

SwitchBodies == {q \in SeqsUpTo(SwitchBodyStatements, MaxBody) : Balanced(q)}

Braced(q) == <<BlockStart>> \o q \o <<BlockEnd>>

LoopPrograms ==
    {<<Plain("while")>> \o Braced(q) \o d : q \in LoopBodies, d \in {<<>>, <<X>>}}
    \cup {<<Plain("for")>> \o Braced(q) \o <<X>> : q \in LoopBodies}
    \cup {<<Plain("do")>> \o Braced(q) \o <<Plain("while")>> \o d :
            q \in LoopBodies, d \in {<<>>, <<X>>}}
    \cup {<<Plain("switch")>> \o Braced(q) \o d : q \in SwitchBodies, d \in {<<>>, <<X>>}}

\* if / else-if / else chains, with unbraced and braced branches, with and
\* without a statement after the chain.
BranchBodies ==
    {<<X>>, <<Plain("return")>>, <<Plain("break")>>, <<Plain("while"), X>>}
    \cup {Braced(q) : q \in SeqsUpTo({X, Plain("break")}, MaxBranch)}

ChainPrograms ==
    LET if1 == {<<Plain("if")>> \o a : a \in BranchBodies}
        ei  == {<<Plain("else_if")>> \o b : b \in BranchBodies}
        el  == {<<Plain("else")>> \o c : c \in BranchBodies}
        chains == if1 \cup {i \o c : i \in if1, c \in el}
                      \cup {i \o b : i \in if1, b \in ei}
                      \cup {i \o b \o c : i \in if1, b \in ei, c \in el}
    IN  {c \o d : c \in chains, d \in {<<>>, <<X>>}}

\* A do-while directly followed by a break or a continue, at top level and
\* as the body of an enclosing while.
DoBodies == {<<X>>} \cup {Braced(q) : q \in SeqsUpTo({X, Plain("break")}, MaxBranch)}

DoTailPrograms ==
    LET dw == {<<Plain("do")>> \o b \o <<Plain("while"), d>> :
                 b \in DoBodies, d \in {Plain("break"), Plain("continue")}}
    IN  {w \o e : w \in dw \cup {<<Plain("while")>> \o Braced(q) : q \in dw},
                  e \in {<<>>, <<X>>}}

Programs == AnyPrograms \cup LoopPrograms \cup ChainPrograms \cup DoTailPrograms

\* The statement lists whose CFG is edited after build_cfg returned:
\* add_edge and remove_edge read only the node set and the two lists they touch.
EditPrograms == {<<>>, <<X>>, <<X, X>>, <<Plain("while"), X>>, <<Plain("break"), X>>}

----------------------------------------------------------------------------
(* The state machine: one build_cfg call on a statement list, then         *)
(* add_edge / remove_edge calls on the CFG it returned.                    *)

\* Calls made on the returned CFG.
MaxEdits == 2

NoCall == [op |-> "none", source |-> None, target |-> None, raised |-> FALSE]

\* The statement list was handed over as it is; no producer loop is modelled.
NoParse == [fn |-> "none", input |-> <<>>, i |-> 0, sid |-> 1, seen |-> {}]

\* No analysis was called yet.
NoAnalysis ==
    [op |-> "none", direction |-> "none", transfer |-> <<>>, defuse |-> <<>>,
     raised |-> FALSE, result |-> NoResult]

\* The facts an analysis works on (variable names), and the sets of them a
\* statement may generate, kill, define or use.
FactSets == {{}, {"a"}, {"b"}}

\* direction: str
Directions == {"forward", "backward"}

Init ==
    /\ stmts \in {AssignSids(p) : p \in Programs}
    /\ pc = "input"
    /\ nodes = {}
    /\ entry = None
    /\ exit = None
    /\ succ = <<>>
    /\ pred = <<>>
    /\ context_stack = <<>>
    /\ scan_idx = 0
    /\ call = NoCall
    /\ edits = 0
    /\ dataflow = NoAnalysis
    /\ parser = NoParse

\* cfg = build_cfg(statements)
Build ==
    /\ pc = "input"
    /\ \E r \in {build_cfg(stmts)} :
           /\ pc' = IF r.err THEN "raised" ELSE "built"
           /\ nodes' = r.nodes
           /\ entry' = r.entry
           /\ exit' = r.exit
           /\ succ' = r.succ
           /\ pred' = r.pred
           /\ context_stack' = r.stack
    /\ scan_idx' = Len(stmts)
    /\ UNCHANGED <<parser, stmts, call, edits, dataflow>>

\* An id that is no node of the CFG.
UnknownId == Len(stmts) + 1

\* Edits are made on a CFG no analysis was called on.
Editable ==
    /\ pc = "built"
    /\ edits < MaxEdits
    /\ dataflow.op = "none"
    /\ stmts \in {AssignSids(p) : p \in EditPrograms}

\* The ids passed to add_edge / remove_edge: every node id and an unknown one.
EditIds == IF Editable THEN nodes \cup {UnknownId} ELSE {}

\* cfg.add_edge(source, target) on the returned CFG
AddEdge(source, target) ==
    /\ Editable
    /\ LET g == add_edge([nodes |-> nodes, succ |-> succ, pred |-> pred, err |-> FALSE],
                         source, target)
       IN  /\ succ' = g.succ
           /\ pred' = g.pred
           /\ call' = [op |-> "add_edge", source |-> source, target |-> target,
                       raised |-> g.err]
    /\ edits' = edits + 1
    /\ UNCHANGED <<parser, stmts, pc, nodes, entry, exit, context_stack, scan_idx, dataflow>>

\* cfg.remove_edge(source, target) on the returned CFG
RemoveEdge(source, target) ==
    /\ Editable
    /\ LET g == remove_edge([nodes |-> nodes, succ |-> succ, pred |-> pred, err |-> FALSE],
                            source, target)
       IN  /\ succ' = g.succ
           /\ pred' = g.pred
           /\ call' = [op |-> "remove_edge", source |-> source, target |-> target,
                       raised |-> g.err]
    /\ edits' = edits + 1
    /\ UNCHANGED <<parser, stmts, pc, nodes, entry, exit, context_stack, scan_idx, dataflow>>

\* The analyses are called on a CFG as build_cfg returned it, once.
Analysable ==
    /\ pc = "built"
    /\ edits = 0
    /\ dataflow.op = "none"
    /\ stmts \in {AssignSids(p) : p \in EditPrograms}

\* The transfer functions handed to solve_worklist, as gen / kill sets per
\* node: transfer(n, facts) = gen[n] \cup (facts \ kill[n]).
TransferFns ==
    IF Analysable
    THEN {[gen |-> g, kill |-> k] : g \in [nodes -> FactSets], k \in [nodes -> FactSets]}
    ELSE {}

\* Statement.defs / Statement.uses of the statements the nodes wrap, per
\* node (build_cfg does not read them).
DefUses ==
    IF Analysable
    THEN {[defs |-> d, uses |-> u] : d \in [nodes -> FactSets], u \in [nodes -> FactSets]}
    ELSE {}

\* The CFG object handed to an analysis.
TheCFG == [nodes |-> nodes, entry |-> entry, exit |-> exit, succ |-> succ, pred |-> pred]

\* solve_worklist(cfg.nodes, predecessors, successors, direction, transfer)
SolveWorklist(direction, transfer) ==
    /\ Analysable
    /\ \E r \in {solve_worklist(nodes, pred, succ, direction, transfer)} :
           dataflow' = [op |-> "solve_worklist", direction |-> direction,
                        transfer |-> transfer, defuse |-> <<>>,
                        raised |-> r.raised, result |-> r.result]
    /\ UNCHANGED <<parser, stmts, pc, nodes, entry, exit, succ, pred, context_stack, scan_idx,
                   call, edits>>

\* compute_reaching_definitions(cfg)
ComputeReachingDefinitions(defuse) ==
    /\ Analysable
    /\ \E r \in {compute_reaching_definitions(TheCFG)} :
           dataflow' = [op |-> "compute_reaching_definitions", direction |-> "forward",
                        transfer |-> <<>>, defuse |-> defuse,
                        raised |-> r.raised, result |-> r.result]
    /\ UNCHANGED <<parser, stmts, pc, nodes, entry, exit, succ, pred, context_stack, scan_idx,
                   call, edits>>

\* compute_live_variables(cfg)
ComputeLiveVariables(defuse) ==
    /\ Analysable
    /\ \E r \in {compute_live_variables(TheCFG)} :
           dataflow' = [op |-> "compute_live_variables", direction |-> "backward",
                        transfer |-> <<>>, defuse |-> defuse,
                        raised |-> r.raised, result |-> r.result]
    /\ UNCHANGED <<parser, stmts, pc, nodes, entry, exit, succ, pred, context_stack, scan_idx,
                   call, edits>>

\* The pointer assignments a Program's statements can be: lhs = new T() or
\* lhs = rhs, over three variables.
PointerVars == {"a", "b", "c"}

Allocation == "new"

PointerAssignments ==
    {[lhs |-> l, rhs |-> r] : l \in PointerVars, r \in {Allocation, "a", "b"}}

\* compute_pointer_analysis takes the Program, here straight-line
\* assignments: one per statement of the list.
PointerAnalysable ==
    /\ pc = "built"
    /\ edits = 0
    /\ dataflow.op = "none"
    /\ stmts \in {AssignSids(p) : p \in {<<X>>, <<X, X>>, <<X, X, X>>}}

PointerPrograms ==
    IF PointerAnalysable THEN [1..Len(stmts) -> PointerAssignments] ELSE {}

\* compute_pointer_analysis(program)
ComputePointerAnalysis(program) ==
    /\ PointerAnalysable
    /\ \E r \in {compute_pointer_analysis(program)} :
           dataflow' = [op |-> "compute_pointer_analysis", program |-> program,
                        raised |-> r.raised, result |-> r.result]
    /\ UNCHANGED <<parser, stmts, pc, nodes, entry, exit, succ, pred, context_stack, scan_idx,
                   call, edits>>

Next ==
    \/ Build
    \/ \E source \in EditIds, target \in EditIds : AddEdge(source, target)
    \/ \E source \in EditIds, target \in EditIds : RemoveEdge(source, target)
    \/ \E direction \in Directions, transfer \in TransferFns :
           SolveWorklist(direction, transfer)
    \/ \E defuse \in DefUses : ComputeReachingDefinitions(defuse)
    \/ \E defuse \in DefUses : ComputeLiveVariables(defuse)
    \/ \E program \in PointerPrograms : ComputePointerAnalysis(program)

Spec == Init /\ [][Next]_vars

----------------------------------------------------------------------------
(* The jump scan of build_cfg (cfg.py 242-295) one iteration at a time:    *)
(* the structured passes in one step, then for each idx the push, then the *)
(* jump edges and the pops, then the return.                               *)

ScanPrograms == LoopPrograms \cup DoTailPrograms

InitScan ==
    /\ stmts \in {AssignSids(p) : p \in ScanPrograms}
    /\ pc = "input"
    /\ nodes = {}
    /\ entry = None
    /\ exit = None
    /\ succ = <<>>
    /\ pred = <<>>
    /\ context_stack = <<>>
    /\ scan_idx = 0
    /\ call = NoCall
    /\ edits = 0
    /\ dataflow = NoAnalysis
    /\ parser = NoParse

\* Everything up to `context_stack: list[int] = []`.
BeginScan ==
    /\ pc = "input"
    /\ \E g \in {Structured(stmts, _build_block_pairs(stmts),
                              DoTails(stmts, _build_block_pairs(stmts)))} :
           /\ nodes' = g.nodes
           /\ succ' = g.succ
           /\ pred' = g.pred
    /\ entry' = stmts[1].sid
    /\ exit' = stmts[Len(stmts)].sid
    /\ context_stack' = <<>>
    /\ scan_idx' = 0
    /\ pc' = "push"
    /\ UNCHANGED <<parser, stmts, call, edits, dataflow>>

\* if stmt.kind in break_kinds and idx in control_info: append
PushStep ==
    /\ pc = "push"
    /\ scan_idx < Len(stmts)
    /\ context_stack' = PushContext(stmts, scan_idx, context_stack)
    /\ pc' = "resolve"
    /\ UNCHANGED <<parser, stmts, nodes, entry, exit, succ, pred, scan_idx, call, edits, dataflow>>

\* The break / continue / goto branches of the iteration, then the pops.
ResolveStep ==
    /\ pc = "resolve"
    /\ \E bp \in {_build_block_pairs(stmts)} :
         \E g \in {JumpEdges(stmts, bp, DoTails(stmts, bp).map, scan_idx, context_stack,
                             [nodes |-> nodes, succ |-> succ, pred |-> pred, err |-> FALSE])} :
           /\ succ' = g.succ
           /\ pred' = g.pred
           /\ context_stack' = PopClosed(stmts, bp, scan_idx, context_stack)
    /\ scan_idx' = scan_idx + 1
    /\ pc' = "push"
    /\ UNCHANGED <<parser, stmts, nodes, entry, exit, call, edits, dataflow>>

\* return cfg
ReturnCFG ==
    /\ pc = "push"
    /\ scan_idx = Len(stmts)
    /\ pc' = "built"
    /\ UNCHANGED <<parser, stmts, nodes, entry, exit, succ, pred, context_stack, scan_idx,
                   call, edits, dataflow>>

NextScan ==
    \/ BeginScan
    \/ PushStep
    \/ ResolveStep
    \/ ReturnCFG

SpecScan == InitScan /\ [][NextScan]_vars

----------------------------------------------------------------------------
(* The producers' loops one iteration at a time: parse_source over its     *)
(* expanded tokens, _parse_jimple over its lines, _parse_clang_ast over    *)
(* its sorted collected items.                                             *)

MaxTokens == 3

\* Tokens of parse_source: blank ones (token.strip() is empty) and texts of
\* statements.
Tokens ==
    {[blank |-> TRUE, kind |-> NoStr]}
    \cup {[blank |-> FALSE, kind |-> k] : k \in {"assign", "while", "block_start"}}

\* Lines of a Jimple file: blank / comment / directive lines, braces,
\* labels, gotos, switch heads and assignments.
JimpleLines ==
    {[cls |-> c, name |-> NoStr] : c \in {"blank", "open", "close", "switch", "assign"}}
    \cup {[cls |-> c, name |-> "L"] : c \in {"label", "goto"}}

\* Items _collect_statements gathers: a source-range key, a kind, a text.
ClangItems ==
    {[key |-> k, kind |-> x[1], text |-> x[2]] :
        k \in 1..2, x \in {<<"while", "while (c)">>, <<"expr", "f()">>, <<"expr", "i++">>}}

InitParse ==
    /\ stmts = <<>>
    /\ pc = "parsing"
    /\ nodes = {}
    /\ entry = None
    /\ exit = None
    /\ succ = <<>>
    /\ pred = <<>>
    /\ context_stack = <<>>
    /\ scan_idx = 0
    /\ call = NoCall
    /\ edits = 0
    /\ dataflow = NoAnalysis
    /\ \/ \E tokens \in SeqsUpTo(Tokens, MaxTokens) :
              parser = [fn |-> "parse_source", input |-> tokens, i |-> 0, sid |-> 1,
                        seen |-> {}]
       \/ \E lines \in SeqsUpTo(JimpleLines, MaxTokens) :
              parser = [fn |-> "_parse_jimple", input |-> lines, i |-> 0, sid |-> 1,
                        seen |-> {}]
       \/ \E collected \in SeqsUpTo(ClangItems, MaxTokens) :
              parser = [fn |-> "_parse_clang_ast", input |-> SortByKey(collected),
                        i |-> 0, sid |-> 1, seen |-> {}]

\* parse_source: for token in expanded
ParseSourceToken ==
    /\ pc = "parsing"
    /\ parser.fn = "parse_source"
    /\ parser.i < Len(parser.input)
    /\ \E r \in {parse_source_iter(At(parser.input, parser.i), parser.sid, stmts)} :
           /\ stmts' = r.statements
           /\ parser' = [parser EXCEPT !.i = @ + 1, !.sid = r.sid]
    /\ UNCHANGED <<pc, nodes, entry, exit, succ, pred, context_stack, scan_idx, call, edits,
                   dataflow>>

\* _parse_jimple: while i < len(lines)
JimpleLine ==
    /\ pc = "parsing"
    /\ parser.fn = "_parse_jimple"
    /\ parser.i < Len(parser.input)
    /\ \E r \in {jimple_iter(parser.input, parser.i, parser.sid, stmts)} :
           /\ stmts' = r.statements
           /\ parser' = [parser EXCEPT !.i = r.i, !.sid = r.sid]
    /\ UNCHANGED <<pc, nodes, entry, exit, succ, pred, context_stack, scan_idx, call, edits,
                   dataflow>>

\* _parse_clang_ast: for item in collected
ClangItem ==
    /\ pc = "parsing"
    /\ parser.fn = "_parse_clang_ast"
    /\ parser.i < Len(parser.input)
    /\ \E r \in {clang_iter(At(parser.input, parser.i), parser.sid, parser.seen, stmts)} :
           /\ stmts' = r.statements
           /\ parser' = [parser EXCEPT !.i = @ + 1, !.sid = r.sid, !.seen = r.seen]
    /\ UNCHANGED <<pc, nodes, entry, exit, succ, pred, context_stack, scan_idx, call, edits,
                   dataflow>>

\* return Program(statements=statements, ...) / return stmts / return statements
ParseReturn ==
    /\ pc = "parsing"
    /\ parser.i >= Len(parser.input)
    /\ pc' = "parsed"
    /\ UNCHANGED <<parser, stmts, nodes, entry, exit, succ, pred, context_stack, scan_idx,
                   call, edits, dataflow>>

NextParse ==
    \/ ParseSourceToken
    \/ JimpleLine
    \/ ClangItem
    \/ ParseReturn

SpecParse == InitParse /\ [][NextParse]_vars

----------------------------------------------------------------------------
(* Properties *)

\* The CFG has an edge a -> b (b is in a's successors).
Edge(a, b) == a \in DOMAIN succ /\ InList(b, succ[a])

\* build_cfg returned a CFG.
Built == pc = "built"

\* The CFG is as build_cfg returned it: no add_edge / remove_edge call yet.
Returned == Built /\ edits = 0

\* C1: in the CFG build_cfg returned, and after every add_edge / remove_edge
\* call made on it, b is in a's successors iff a is in b's predecessors.
C1_EdgeSymmetry ==
    Built => \A a \in nodes, b \in nodes : InList(b, succ[a]) <=> InList(a, pred[b])

\* Two calls were made on a returned CFG, the last one a remove_edge between
\* two nodes, and the CFG still has an edge.
C1_Witness ==
    /\ Built
    /\ edits = MaxEdits
    /\ call.op = "remove_edge"
    /\ call.source \in nodes
    /\ call.target \in nodes
    /\ \E a \in nodes : succ[a] # <<>>

\* Statement positions below are 1-based; the producers number statements
\* from 1, so the statement at position i is the CFG node with id i.
Kind(i) == stmts[i].kind

\* Open braces minus closed braces over positions i..j.
RECURSIVE Nesting(_, _)
Nesting(i, j) ==
    IF j < i THEN 0
    ELSE Nesting(i, j - 1) + (IF Kind(j) = "block_start" THEN 1
                              ELSE IF Kind(j) = "block_end" THEN -1 ELSE 0)

\* The block_end closing the block_start at position i; 0 when there is none.
Close(i) ==
    LET c == {j \in (i + 1)..Len(stmts) :
                 Nesting(i, j) = 0 /\ \A m \in i..(j - 1) : Nesting(i, m) > 0}
    IN  IF i \in 1..Len(stmts) /\ Kind(i) = "block_start" /\ c # {}
        THEN CHOOSE j \in c : TRUE ELSE 0

\* Position h is a header of the given kinds followed by a braced body.
BracedHeader(h, kinds) ==
    /\ h \in 1..Len(stmts)
    /\ Kind(h) \in kinds
    /\ Close(h + 1) # 0

\* The whole list is `if {A} else if {B} else {C} D`.
IfElseIfElseThenD ==
    /\ BracedHeader(1, {"if"})
    /\ BracedHeader(Close(2) + 1, {"else_if"})
    /\ BracedHeader(Close(Close(2) + 2) + 1, {"else"})
    /\ Len(stmts) = Close(Close(Close(2) + 2) + 2) + 1

LoopThenD ==
    /\ BracedHeader(1, {"while", "for"})
    /\ Len(stmts) = Close(2) + 1

\* C3: for `while (c) { S }` (or a for loop of that shape) followed by D the
\* CFG has header -> S-start, header -> D and S-end -> header and has no edge
\* S-end -> D, S-start and S-end being the first and last statement of the
\* body range.
C3_LoopBackEdge ==
    (Returned /\ LoopThenD) =>
        LET s_start == 2
            s_end   == Close(2)
            d       == s_end + 1
        IN  /\ Edge(1, s_start)
            /\ Edge(1, d)
            /\ Edge(s_end, 1)
            /\ ~Edge(s_end, d)

\* A for loop whose body holds a nested loop and a break was built.
C3_Witness ==
    /\ Returned
    /\ LoopThenD
    /\ Kind(1) = "for"
    /\ \E i, j \in 3..(Close(2) - 1) : Kind(i) = "while" /\ Kind(j) = "break"
    /\ Edge(Close(2), 1)

\* The last position of the statement that starts at position h, as the
\* language nests it: a block runs to its closing brace, a header owns the
\* whole statement after it, a do also owns the `while` tail after its body.
RECURSIVE StmtEnd(_)
StmtEnd(h) ==
    IF h >= Len(stmts) THEN Len(stmts)
    ELSE IF Kind(h) = "block_start" THEN (IF Close(h) # 0 THEN Close(h) ELSE Len(stmts))
    ELSE IF Kind(h) = "do"
    THEN LET e == StmtEnd(h + 1)
         IN  IF e < Len(stmts) /\ Kind(e + 1) = "while" THEN e + 1 ELSE e
    ELSE IF Kind(h) \in ControlKinds THEN StmtEnd(h + 1)
    ELSE h

\* Position p lies inside a statement of the given kinds that starts at one
\* of the positions lo..(p - 1).
NestedIn(p, lo, kinds) ==
    \E h \in lo..(p - 1) : Kind(h) \in kinds /\ p <= StmtEnd(h)

\* The whole list is `do { S } while (c);` followed by D.
DoWhileThenD ==
    /\ BracedHeader(1, {"do"})
    /\ Len(stmts) = Close(2) + 2
    /\ Kind(Close(2) + 1) = "while"

\* C4: for `do { S } while (c);` followed by D, every continue inside S that
\* is not nested in an inner loop has an edge to the `while (c)` tail, and
\* every break inside S that is not nested in an inner loop or switch has an
\* edge to D.
C4_DoWhileTailRouting ==
    (Returned /\ DoWhileThenD) =>
        LET tail == Close(2) + 1
            d    == Close(2) + 2
        IN  \A p \in 3..(Close(2) - 1) :
                /\ (Kind(p) = "continue" /\ ~NestedIn(p, 3, loop_kinds)) => Edge(p, tail)
                /\ (Kind(p) = "break" /\ ~NestedIn(p, 3, break_kinds)) => Edge(p, d)

\* do { while (a) while (b) x; continue; } while (c); D was built: the
\* continue follows the nested loops and its edge goes to `while (a)`.
C4_StaleLoopContext ==
    /\ Returned
    /\ DoWhileThenD
    /\ Len(stmts) = 9
    /\ Kind(3) = "while" /\ Kind(4) = "while" /\ Kind(5) = "stmt" /\ Kind(6) = "continue"
    /\ ~NestedIn(6, 3, loop_kinds)
    /\ succ[6] = <<3>>

\* The body range of the header at position h: the braced block after it, or
\* the single statement after it.  <<first, last>>.
BodyRange(h) ==
    IF Close(h + 1) # 0 THEN <<h + 1, Close(h + 1)>> ELSE <<h + 1, h + 1>>

\* Position t is the `while (c)` tail of a do statement.
IsDoTail(t) ==
    /\ Kind(t) = "while"
    /\ \E h \in 1..(t - 2) : Kind(h) = "do" /\ BodyRange(h)[2] + 1 = t

\* The headers of the given kinds that have a body (do-while tails are not
\* headers).
Constructs(kinds) ==
    {h \in 1..(Len(stmts) - 1) : Kind(h) \in kinds /\ ~IsDoTail(h)}

\* Those whose body range contains position p.
Enclosing(p, kinds) ==
    {h \in Constructs(kinds) : BodyRange(h)[1] <= p /\ p <= BodyRange(h)[2]}

\* The innermost of them (body ranges that share a position are nested).
Innermost(p, kinds) ==
    CHOOSE h \in Enclosing(p, kinds) : \A k \in Enclosing(p, kinds) : k <= h

\* Where a break leaves the construct at h: the statement after its body, for
\* a do-while the statement after the tail; 0 when the list ends there.
ExitOf(h) ==
    LET last == IF Kind(h) = "do" /\ BodyRange(h)[2] < Len(stmts)
                   /\ Kind(BodyRange(h)[2] + 1) = "while"
                THEN BodyRange(h)[2] + 1 ELSE BodyRange(h)[2]
    IN  IF last < Len(stmts) THEN last + 1 ELSE 0

\* Where a continue re-tests the loop at h: its header, for a do-while the tail.
RetestOf(h) ==
    IF Kind(h) = "do" /\ BodyRange(h)[2] < Len(stmts) /\ Kind(BodyRange(h)[2] + 1) = "while"
    THEN BodyRange(h)[2] + 1 ELSE h

\* The edges of the structured passes, before break / continue / goto
\* resolution.
StructuredSucc ==
    Structured(stmts, _build_block_pairs(stmts), DoTails(stmts, _build_block_pairs(stmts))).succ

\* The edge a -> b was added by break / continue / goto resolution.
AddedByResolution(a, b) == Edge(a, b) /\ ~InList(b, StructuredSucc[a])

\* C5: every break inside the body range of a while/for/do/switch has its
\* edge to the exit of the innermost such construct, and resolution adds no
\* edge from it to the exit of a construct whose body range does not contain it.
C5_BreakInnermostExit ==
    Returned =>
        \A p \in 1..Len(stmts) :
            (Kind(p) = "break" /\ Enclosing(p, break_kinds) # {}) =>
                LET target == ExitOf(Innermost(p, break_kinds))
                IN  /\ target # 0 => Edge(p, target)
                    /\ \A h \in Constructs(break_kinds) \ Enclosing(p, break_kinds) :
                           (ExitOf(h) # 0 /\ ExitOf(h) # target)
                               => ~AddedByResolution(p, ExitOf(h))

\* while (a) { while (b) while (c) x; break; } D was built: the break lies
\* in the body range of `while (a)` only and its edge goes to x, the exit of
\* `while (b)`.
C5_BreakToClosedLoopExit ==
    /\ Returned
    /\ LoopThenD
    /\ Len(stmts) = 8
    /\ Kind(3) = "while" /\ Kind(4) = "while" /\ Kind(5) = "stmt" /\ Kind(6) = "break"
    /\ Enclosing(6, break_kinds) = {1}
    /\ ExitOf(3) = 5
    /\ succ[6] = <<5>>

\* C6: every continue inside the body range of a while/for/do has its edge to
\* the re-test point of the innermost enclosing loop (header, or tail of a
\* do-while), whatever switches lie between, and resolution adds no edge from
\* it to the re-test point of a loop whose body range does not contain it.
C6_ContinueInnermostLoop ==
    Returned =>
        \A p \in 1..Len(stmts) :
            (Kind(p) = "continue" /\ Enclosing(p, loop_kinds) # {}) =>
                LET target == RetestOf(Innermost(p, loop_kinds))
                IN  /\ Edge(p, target)
                    /\ \A h \in Constructs(loop_kinds) \ Enclosing(p, loop_kinds) :
                           RetestOf(h) # target => ~AddedByResolution(p, RetestOf(h))

\* while (a) { while (b) while (c) x; continue; } D was built: the continue
\* lies in the body range of `while (a)` only and its edge goes to `while (b)`.
C6_ContinueToClosedLoop ==
    /\ Returned
    /\ LoopThenD
    /\ Len(stmts) = 8
    /\ Kind(3) = "while" /\ Kind(4) = "while" /\ Kind(5) = "stmt" /\ Kind(6) = "continue"
    /\ Enclosing(6, loop_kinds) = {1}
    /\ succ[6] = <<3>>

\* Some label statement carries the given name.
LabelExists(name) == \E i \in 1..Len(stmts) : Kind(i) = "label" /\ stmts[i].label = name

\* Position p is a jump with nothing to resolve to: a break outside every
\* loop and switch, a continue outside every loop, a goto to a name no label
\* statement carries.
UnresolvedJump(p) ==
    \/ Kind(p) = "break" /\ ~NestedIn(p, 1, break_kinds) /\ Enclosing(p, break_kinds) = {}
    \/ Kind(p) = "continue" /\ ~NestedIn(p, 1, loop_kinds) /\ Enclosing(p, loop_kinds) = {}
    \/ Kind(p) = "goto" /\ ~LabelExists(stmts[p].target)

\* C7: build_cfg raises no error, and in the CFG it returns a break with no
\* enclosing loop or switch, a continue with no enclosing loop and a goto to
\* a name without label statement have no outgoing edge at all.
C7_UnresolvedJumpNoEdge ==
    /\ pc # "raised"
    /\ Returned => \A p \in 1..Len(stmts) : UnresolvedJump(p) => succ[p] = <<>>

\* if (c) break; else x; D was built: the break is in no loop or switch and
\* has an edge to D.
C7_BreakEndsIfBody ==
    /\ Returned
    /\ Len(stmts) = 5
    /\ Kind(1) = "if" /\ Kind(2) = "break" /\ Kind(3) = "else" /\ Kind(4) = "stmt"
    /\ Kind(5) = "stmt"
    /\ UnresolvedJump(2)
    /\ succ[2] = <<5>>

\* C8: in the CFG build_cfg returns, every node other than the exit whose
\* kind is not return, break, continue or goto has at least one successor.
C8_NonTerminalHasSuccessor ==
    Returned =>
        \A p \in 1..Len(stmts) :
            (p # exit /\ Kind(p) \notin {"return", "break", "continue", "goto"})
                => succ[p] # <<>>

\* A CFG was built in which such a node lost its edge to the next statement
\* (an if body before an else, a loop body end) and has another successor.
C8_Witness ==
    /\ Returned
    /\ \E p \in 1..(Len(stmts) - 1), q \in 1..(Len(stmts) - 1) :
           /\ Kind(p) = "stmt" /\ Kind(q) = "block_end"
           /\ ~Edge(p, p + 1) /\ ~Edge(q, q + 1)
           /\ succ[p] # <<>> /\ succ[q] # <<>>

\* The case / default statements in the body range of the switch at h.
CasesOf(h) ==
    {c \in BodyRange(h)[1]..BodyRange(h)[2] : Kind(c) \in {"case", "default"}}

\* C9: every switch with a body has an edge to each case / default in its
\* body range and, when a statement follows the body, an edge to it; an edge
\* from one case / default of the switch to another is the sequential edge
\* to the next statement.
C9_SwitchEdges ==
    Returned =>
        \A h \in Constructs({"switch"}) :
            /\ \A c \in CasesOf(h) : Edge(h, c)
            /\ BodyRange(h)[2] < Len(stmts) => Edge(h, BodyRange(h)[2] + 1)
            /\ \A c1 \in CasesOf(h), c2 \in CasesOf(h) : Edge(c1, c2) => c2 = c1 + 1

\* A switch with two cases apart, a default and a following statement was
\* built.
C9_Witness ==
    /\ Returned
    /\ \E h \in Constructs({"switch"}) :
           /\ BodyRange(h)[2] < Len(stmts)
           /\ \E c1 \in CasesOf(h), c2 \in CasesOf(h), c3 \in CasesOf(h) :
                  /\ c1 + 1 < c2 /\ c2 < c3
                  /\ Kind(c1) = "case" /\ Kind(c2) = "case" /\ Kind(c3) = "default"
                  /\ Edge(h, c1) /\ Edge(h, c3)

\* The label names the jump at position p asks for.
Targets(p) ==
    IF Kind(p) \in {"goto", "if_goto"} THEN {stmts[p].target} \ {NoStr}
    ELSE IF Kind(p) = "switch_goto"
    THEN {stmts[p].targets[i] : i \in 1..Len(stmts[p].targets)} \ {NoStr}
    ELSE {}

\* C10: build_cfg raises no error; every goto, if_goto and switch_goto has an
\* edge to each label statement one of its targets names, and resolution adds
\* no other edge from it, so a target that names no label statement adds none.
C10_LabelResolution ==
    /\ pc # "raised"
    /\ Returned =>
           \A p \in 1..Len(stmts) :
               /\ \A l \in 1..Len(stmts) :
                      (Kind(l) = "label" /\ stmts[l].label \in Targets(p)) => Edge(p, l)
               /\ \A b \in 1..Len(stmts) :
                      (Targets(p) # {} /\ AddedByResolution(p, b))
                          => (Kind(b) = "label" /\ stmts[b].label \in Targets(p))

\* L: goto L; L: was built (the label name is used a second time after the
\* goto): the goto has an edge to the second label statement only.
C10_GotoToLaterDuplicate ==
    /\ Returned
    /\ Len(stmts) = 3
    /\ Kind(1) = "label" /\ Kind(2) = "goto" /\ Kind(3) = "label"
    /\ stmts[1].label = stmts[2].target
    /\ stmts[3].label = stmts[2].target
    /\ succ[2] = <<3>>

\* C11: build_cfg raises an error instead of returning a CFG when the block
\* markers are unbalanced (a block_end with no open block_start, or a
\* block_start that is never closed).
C11_UnbalancedMarkersRaise ==
    (pc # "input" /\ ~Balanced(stmts)) => pc = "raised"

\* A CFG was returned for a list that starts with a block_end, and one for a
\* list whose last statement is a block_start.
C11_UnbalancedReturned ==
    /\ Returned
    /\ ~Balanced(stmts)
    /\ Kind(1) = "block_end"
    /\ Kind(Len(stmts)) = "block_start"

\* The step is a call cfg.<op>(source, target) naming an id that is no node.
CallWithUnknownId(op) ==
    /\ edits' = edits + 1
    /\ call'.op = op
    /\ (call'.source \notin nodes \/ call'.target \notin nodes)

\* C12: add_edge raises whenever source or target is not a node id, and then
\* leaves every node's successors and predecessors unchanged.
C12_AddEdgeUnknownIdRaises ==
    [][CallWithUnknownId("add_edge")
          => (call'.raised /\ succ' = succ /\ pred' = pred /\ nodes' = nodes)]_vars

\* add_edge was called with a node as source and an unknown target on a CFG
\* that has edges, and raised.
C12_Witness ==
    /\ Built
    /\ call.op = "add_edge"
    /\ call.source \in nodes
    /\ call.target \notin nodes
    /\ call.raised
    /\ succ[call.source] # <<>>

\* C13: remove_edge raises whenever source or target is not a node id; it
\* does not silently return.
C13_RemoveEdgeUnknownIdRaises ==
    (call.op = "remove_edge" /\ (call.source \notin nodes \/ call.target \notin nodes))
        => call.raised

\* remove_edge was called with an unknown target and returned normally.
C13_RemoveEdgeReturned ==
    /\ Built
    /\ call.op = "remove_edge"
    /\ call.source \in nodes
    /\ call.target \notin nodes
    /\ ~call.raised

\* No id occurs twice in the list.
NoDuplicates(l) == \A i, j \in 1..Len(l) : l[i] = l[j] => i = j

\* C14: after build_cfg and every add_edge / remove_edge call no successors
\* or predecessors list holds an id twice, and add_edge(a, b) on an existing
\* edge a -> b leaves the CFG unchanged.
C14_NoDuplicateEdges ==
    /\ [](Built => \A n \in nodes : NoDuplicates(succ[n]) /\ NoDuplicates(pred[n]))
    /\ [][(edits' = edits + 1 /\ call'.op = "add_edge"
              /\ Edge(call'.source, call'.target))
             => (~call'.raised /\ succ' = succ /\ pred' = pred /\ nodes' = nodes
                 /\ entry' = entry /\ exit' = exit)]_vars

\* add_edge(1, 2) was called on the CFG of two plain statements, which has
\* the edge 1 -> 2 since build_cfg.
C14_Witness ==
    /\ Built
    /\ Len(stmts) = 2
    /\ Kind(1) = "stmt"
    /\ edits = 1
    /\ call.op = "add_edge" /\ call.source = 1 /\ call.target = 2
    /\ succ[1] = <<2>>
    /\ pred[2] = <<1>>

\* C15: build_cfg on an empty statement list returns, without error, a CFG
\* with no nodes and entry = exit = None.
C15_EmptyInput ==
    (pc # "input" /\ stmts = <<>>) =>
        (pc = "built" /\ nodes = {} /\ entry = None /\ exit = None)

\* build_cfg returned for the empty list.
C15_Witness == Returned /\ Len(stmts) = 0 /\ nodes = {} /\ succ = <<>>

\* The statements' ids are pairwise different.
UniqueIds == \A i, j \in 1..Len(stmts) : stmts[i].sid = stmts[j].sid => i = j

\* C16: for a non-empty list with unique ids build_cfg returns a CFG whose
\* node keys are exactly the statements' ids, block markers included, whose
\* entry is the first statement's id and whose exit is the last one's.
C16_NodesEntryExit ==
    (pc # "input" /\ Len(stmts) > 0 /\ UniqueIds) =>
        /\ pc = "built"
        /\ nodes = {stmts[i].sid : i \in 1..Len(stmts)}
        /\ Cardinality(nodes) = Len(stmts)
        /\ entry = stmts[1].sid
        /\ exit = stmts[Len(stmts)].sid

\* A CFG was returned for a list that starts and ends with a block marker.
C16_Witness ==
    /\ Returned
    /\ Len(stmts) >= 3
    /\ stmts[1].synthetic
    /\ stmts[Len(stmts)].synthetic
    /\ entry = 1
    /\ exit = Len(stmts)
    /\ {1, Len(stmts)} \subseteq nodes

\* Predecessors / successors of node n as sets.
PredSet(n) == {pred[n][i] : i \in 1..Len(pred[n])}

SuccSet(n) == {succ[n][i] : i \in 1..Len(succ[n])}

\* transfer(n, facts) of a gen / kill transfer function.
Apply(transfer, n, facts) == transfer.gen[n] \cup (facts \ transfer.kill[n])

\* The analysis `op` was called and returned a result keyed by the nodes.
Returns(op) ==
    /\ dataflow.op = op
    /\ ~dataflow.raised
    /\ DOMAIN dataflow.result.in_sets = nodes
    /\ DOMAIN dataflow.result.out_sets = nodes

\* C18: solve_worklist returns a DataFlowResult that is a fixpoint of the
\* equations of its direction: forward IN[n] = union of OUT[p] over the
\* predecessors p and OUT[n] = transfer(n, IN[n]); backward OUT[n] = union
\* of IN[s] over the successors s and IN[n] = transfer(n, OUT[n]).
C18_SolveWorklistFixpoint ==
    dataflow.op = "solve_worklist" =>
        /\ Returns("solve_worklist")
        /\ LET ins  == dataflow.result.in_sets
               outs == dataflow.result.out_sets
           IN  \A n \in nodes :
                   IF dataflow.direction = "forward"
                   THEN /\ ins[n] = UNION {outs[p] : p \in PredSet(n)}
                        /\ outs[n] = Apply(dataflow.transfer, n, ins[n])
                   ELSE /\ outs[n] = UNION {ins[q] : q \in SuccSet(n)}
                        /\ ins[n] = Apply(dataflow.transfer, n, outs[n])

\* solve_worklist was called forward on the CFG of `while (c) x;`, which has
\* the cycle 1 -> 2 -> 1, with a transfer function that generates a fact,
\* and raised.
C18_SolverRaised ==
    /\ Returned
    /\ Len(stmts) = 2
    /\ Kind(1) = "while"
    /\ Edge(1, 2) /\ Edge(2, 1)
    /\ dataflow.op = "solve_worklist"
    /\ dataflow.direction = "forward"
    /\ dataflow.transfer.gen[1] = {"a"}
    /\ dataflow.raised

\* The definitions (v, n) made in the program, GEN(n) and KILL(n).
Definitions == {d \in (UNION FactSets) \X nodes : d[1] \in dataflow.defuse.defs[d[2]]}

GEN(n) == {d \in Definitions : d[2] = n}

KILL(n) == {d \in Definitions : d[1] \in dataflow.defuse.defs[n] /\ d[2] # n}

\* C19: compute_reaching_definitions returns, for every node n,
\* OUT[n] = GEN(n) \cup (IN[n] - KILL(n)), and the entry's IN holds no
\* definition from outside the program.
C19_ReachingDefinitions ==
    dataflow.op = "compute_reaching_definitions" =>
        /\ Returns("compute_reaching_definitions")
        /\ LET ins  == dataflow.result.in_sets
               outs == dataflow.result.out_sets
           IN  /\ \A n \in nodes : outs[n] = GEN(n) \cup (ins[n] \ KILL(n))
               /\ entry # None => ins[entry] \subseteq Definitions

\* compute_reaching_definitions was called on the CFG of two plain
\* statements that both define "a", and raised.
C19_ReachingDefinitionsRaised ==
    /\ Returned
    /\ Len(stmts) = 2
    /\ dataflow.op = "compute_reaching_definitions"
    /\ dataflow.defuse.defs[1] = {"a"}
    /\ dataflow.defuse.defs[2] = {"a"}
    /\ KILL(2) = {<<"a", 1>>}
    /\ dataflow.raised

\* C20: compute_live_variables returns, for every node n,
\* IN[n] = USE(n) \cup (OUT[n] - DEF(n)) with USE(n) = n.uses and
\* DEF(n) = n.defs, and the OUT set of the exit node is empty.
C20_LiveVariables ==
    dataflow.op = "compute_live_variables" =>
        /\ Returns("compute_live_variables")
        /\ LET ins  == dataflow.result.in_sets
               outs == dataflow.result.out_sets
           IN  /\ \A n \in nodes :
                      ins[n] = dataflow.defuse.uses[n]
                                   \cup (outs[n] \ dataflow.defuse.defs[n])
               /\ exit # None => outs[exit] = {}

\* compute_live_variables was called on the CFG of two plain statements,
\* the first defining "a" and the second using it, and raised.
C20_LiveVariablesRaised ==
    /\ Returned
    /\ Len(stmts) = 2
    /\ dataflow.op = "compute_live_variables"
    /\ dataflow.defuse.defs[1] = {"a"}
    /\ dataflow.defuse.uses[2] = {"a"}
    /\ dataflow.raised

\* The statements of a = new T(); b = a; c = b;
CopyChain ==
    <<[lhs |-> "a", rhs |-> Allocation], [lhs |-> "b", rhs |-> "a"],
      [lhs |-> "c", rhs |-> "b"]>>

\* C21: compute_pointer_analysis on a = new T(); b = a; c = b; returns a
\* result in which a points to an abstract location, every location a
\* points to is in points_to[c] (and in points_to[b], through which it
\* travels), and one alias set holds a, b and c.
C21_PointerCopyChain ==
    (dataflow.op = "compute_pointer_analysis" /\ dataflow.program = CopyChain)
        => /\ ~dataflow.raised
           /\ {"a", "b", "c"} \subseteq DOMAIN dataflow.result.points_to
           /\ dataflow.result.points_to["a"] # {}
           /\ dataflow.result.points_to["a"] \subseteq dataflow.result.points_to["b"]
           /\ dataflow.result.points_to["a"] \subseteq dataflow.result.points_to["c"]
           /\ \E k \in DOMAIN dataflow.result.alias_sets :
                  {"a", "b", "c"} \subseteq dataflow.result.alias_sets[k]

\* compute_pointer_analysis was called on the copy chain and raised
\* NotImplementedError.
C21_PointerAnalysisRaised ==
    /\ dataflow.op = "compute_pointer_analysis"
    /\ dataflow.program = CopyChain
    /\ dataflow.raised

\* Position h is an if / else_if whose body is directly followed by an
\* else / else_if.
BranchBeforeElse(h) ==
    /\ h \in 1..(Len(stmts) - 1)
    /\ Kind(h) \in {"if", "else_if"}
    /\ BodyRange(h)[2] < Len(stmts)
    /\ Kind(BodyRange(h)[2] + 1) \in ElseKinds

\* C22: for every if / else_if whose body is directly followed by an
\* else / else_if, the returned CFG has no edge from the last statement of
\* that body to the following header, also when the else-chain ends the list.
C22_NoFallIntoElse ==
    Returned =>
        \A h \in 1..Len(stmts) :
            BranchBeforeElse(h) => ~Edge(BodyRange(h)[2], BodyRange(h)[2] + 1)

\* if (c) x; else y; was built with nothing after the chain: the edge from
\* x to the else header is in the returned CFG.
C22_FallIntoLastElse ==
    /\ Returned
    /\ Len(stmts) = 4
    /\ Kind(1) = "if" /\ Kind(2) = "stmt" /\ Kind(3) = "else" /\ Kind(4) = "stmt"
    /\ BranchBeforeElse(1)
    /\ Edge(2, 3)

\* The scan is processing the statement at position scan_idx + 1, after the
\* push of that iteration.
Processing(kinds) ==
    /\ pc = "resolve"
    /\ Kind(scan_idx + 1) \in kinds

\* The context stack as positions.
StackPositions == [k \in 1..Len(context_stack) |-> context_stack[k] + 1]

\* C23: when the scan processes a break or a continue, the context stack
\* holds exactly the while/for/do/switch headers whose body range contains
\* that statement, outermost first; at no point of the scan does the stack
\* hold a header whose body range has closed or the `while` tail of a
\* do-while.
C23_ContextStackIsEnclosing ==
    /\ Processing({"break", "continue"}) =>
          /\ {StackPositions[k] : k \in 1..Len(context_stack)}
                 = Enclosing(scan_idx + 1, break_kinds)
          /\ \A k \in 1..(Len(context_stack) - 1) : StackPositions[k] < StackPositions[k + 1]
    /\ pc = "resolve" =>
          \A k \in 1..Len(context_stack) :
              /\ ~IsDoTail(StackPositions[k])
              /\ scan_idx + 1 <= BodyRange(StackPositions[k])[2]

\* while (a) { while (b) while (c) x; break; } D: the scan processes the
\* break with `while (b)` still on the stack, whose body range has closed.
C23_ClosedLoopOnStack ==
    /\ Processing({"break"})
    /\ Len(stmts) = 8
    /\ Kind(1) = "while" /\ Kind(3) = "while" /\ Kind(4) = "while" /\ Kind(5) = "stmt"
    /\ scan_idx + 1 = 6
    /\ Enclosing(6, break_kinds) = {1}
    /\ BodyRange(3) = <<4, 4>>
    /\ StackPositions = <<1, 3>>

\* C24: every if / else_if that has a statement after its body range keeps,
\* in the returned CFG, the edge from the header to that statement; no
\* rewiring or loop pass removes it.
C24_BranchSkipsBody ==
    Returned =>
        \A h \in 1..(Len(stmts) - 1) :
            (Kind(h) \in {"if", "else_if"} /\ BodyRange(h)[2] < Len(stmts))
                => Edge(h, BodyRange(h)[2] + 1)

\* if (c) x; else y; D was built: the rewiring removed x -> else and added
\* x -> D, and the if still has its edge to the else.
C24_Witness ==
    /\ Returned
    /\ Len(stmts) = 5
    /\ Kind(1) = "if" /\ Kind(2) = "stmt" /\ Kind(3) = "else" /\ Kind(4) = "stmt"
    /\ BodyRange(1) = <<2, 2>>
    /\ ~Edge(2, 3) /\ Edge(2, 5)
    /\ Edge(1, 3)

\* Position q is where the break / continue / goto at position p jumps to:
\* the exit of the innermost construct whose body range contains the break,
\* the re-test point of the innermost loop whose body range contains the
\* continue, a label statement the goto names.
JumpTarget(p, q) ==
    \/ /\ Kind(p) = "break"
       /\ Enclosing(p, break_kinds) # {}
       /\ q = ExitOf(Innermost(p, break_kinds))
    \/ /\ Kind(p) = "continue"
       /\ Enclosing(p, loop_kinds) # {}
       /\ q = RetestOf(Innermost(p, loop_kinds))
    \/ /\ Kind(p) = "goto"
       /\ Kind(q) = "label"
       /\ stmts[q].label \in Targets(p)

\* C25: in the returned CFG a return, break, continue or goto has no edge to
\* the statement directly after it, unless that statement is the jump target
\* of the break, continue or goto.
C25_NoFallthroughAfterJump ==
    Returned =>
        \A p \in 1..(Len(stmts) - 1) :
            (Kind(p) \in NoFallthroughKinds /\ Edge(p, p + 1)) => JumpTarget(p, p + 1)

\* do x; while (c); break; y was built: the break follows the do-while, no
\* body range contains it, and it has an edge to y, the statement after it.
C25_BreakAfterDoWhileFallsThrough ==
    /\ Returned
    /\ Len(stmts) = 5
    /\ Kind(1) = "do" /\ Kind(2) = "stmt" /\ Kind(3) = "while" /\ Kind(4) = "break"
    /\ IsDoTail(3)
    /\ Enclosing(4, break_kinds) = {}
    /\ Edge(4, 5)

\* Position h is a do whose body range is directly followed by a while.
DoWithTail(h) ==
    /\ h \in 1..(Len(stmts) - 1)
    /\ Kind(h) = "do"
    /\ BodyRange(h)[2] < Len(stmts)
    /\ Kind(BodyRange(h)[2] + 1) = "while"

\* C26: for every do whose body is directly followed by a while, that while
\* (the tail) has an edge to the first statement of the do body and keeps
\* its edge to the statement after it, and it gets no while-loop edges: no
\* edge to the statement after the next one, no back-edge from the statement
\* after it, and that statement keeps its own fall-through edge.
C26_DoWhileTail ==
    Returned =>
        \A h \in 1..Len(stmts) :
            DoWithTail(h) =>
                LET t == BodyRange(h)[2] + 1
                IN  /\ Edge(t, h + 1)
                    /\ t < Len(stmts) =>
                          /\ Edge(t, t + 1)
                          /\ ~Edge(t + 1, t)
                    /\ t + 1 < Len(stmts) =>
                          /\ ~Edge(t, t + 2)
                          /\ Kind(t + 1) \notin NoFallthroughKinds => Edge(t + 1, t + 2)

\* while (a) { do x; while (b); continue; } was built: the continue after
\* the do-while lies in the body range of `while (a)` only, and its one edge
\* goes back to the tail `while (b)`.
C26_ContinueBackToTail ==
    /\ Returned
    /\ Len(stmts) = 7
    /\ Kind(1) = "while" /\ Kind(3) = "do" /\ Kind(4) = "stmt" /\ Kind(5) = "while"
    /\ Kind(6) = "continue"
    /\ DoWithTail(3)
    /\ Enclosing(6, loop_kinds) = {1}
    /\ succ[6] = <<5>>

\* The break at position p lies in the body range of a do-while, no inner
\* loop or switch body range contains it, and the `while` tail of that
\* do-while is the last statement of the list.
BreakOfLastDoWhile(p) ==
    /\ Kind(p) = "break"
    /\ Enclosing(p, break_kinds) # {}
    /\ DoWithTail(Innermost(p, break_kinds))
    /\ BodyRange(Innermost(p, break_kinds))[2] + 1 = Len(stmts)

\* C27: a break inside the body of a do-while whose `while` tail is the last
\* statement of the list has no edge in the returned CFG: not to the tail,
\* not to any other statement.
C27_BreakOfLastDoWhileNoEdge ==
    Returned =>
        \A p \in 1..Len(stmts) : BreakOfLastDoWhile(p) => succ[p] = <<>>

\* do { while (a) while (b) x; break; } while (c); was built, the tail being
\* the last statement: the break follows the nested loops, only the do's
\* body range contains it, and it has an edge to x, the exit of `while (a)`
\* as the body ranges have it.
C27_BreakRoutedToClosedLoopExit ==
    /\ Returned
    /\ Len(stmts) = 8
    /\ Kind(1) = "do" /\ Kind(3) = "while" /\ Kind(4) = "while" /\ Kind(5) = "stmt"
    /\ Kind(8) = "while"
    /\ BreakOfLastDoWhile(6)
    /\ Enclosing(6, break_kinds) = {1}
    /\ ExitOf(3) = 5
    /\ succ[6] = <<5>>

\* A producer returned its statement list.
Parsed == pc = "parsed"

\* The producer dropped part of its input: a blank token, a blank or brace
\* line or the lines of a switch block, a duplicate collected item.
DroppedInput == Len(stmts) < Len(parser.input)

\* C28: the statement list returned by parse_source, _parse_jimple and
\* _parse_clang_ast has the ids 1, 2, ..., n in list order (unique, strictly
\* increasing, consecutive from 1), whatever input was dropped on the way.
C28_ConsecutiveIds ==
    Parsed => \A k \in 1..Len(stmts) : stmts[k].sid = k

\* parse_source returned two statements from three tokens, the blank one
\* between them dropped, and they have the ids 1 and 2.
C28_Witness ==
    /\ Parsed
    /\ parser.fn = "parse_source"
    /\ Len(parser.input) = 3
    /\ ~parser.input[1].blank /\ parser.input[2].blank /\ ~parser.input[3].blank
    /\ DroppedInput
    /\ Len(stmts) = 2
    /\ stmts[1].sid = 1 /\ stmts[2].sid = 2

\* C29: in the returned CFG a return has no successors, also when it is the
\* unbraced body of an if / else_if followed by an else chain or the last
\* statement of a while / for body range.
C29_ReturnHasNoSuccessor ==
    Returned => \A p \in 1..Len(stmts) : Kind(p) = "return" => succ[p] = <<>>

\* if (c) return; else y; D was built: the return is the unbraced body of the
\* if, and it has an edge to D, the join of the chain.
C29_ReturnFlowsToJoin ==
    /\ Returned
    /\ Len(stmts) = 5
    /\ Kind(1) = "if" /\ Kind(2) = "return" /\ Kind(3) = "else" /\ Kind(4) = "stmt"
    /\ BranchBeforeElse(1)
    /\ BodyRange(1) = <<2, 2>>
    /\ succ[2] = <<5>>

\* C30: in the returned CFG every if / else_if / else / while / for / do /
\* switch header that is not the last statement has the edge to the next
\* statement, the first of its own body; no removal made for an enclosing
\* loop or else-chain deletes it.
C30_HeaderEntersBody ==
    Returned =>
        \A h \in 1..(Len(stmts) - 1) : Kind(h) \in ControlKinds => Edge(h, h + 1)

\* while (a) while (b) x; was built: `while (b)` is the unbraced body of
\* `while (a)`, and it has no edge to x, its own body.
C30_InnerLoopCutFromBody ==
    /\ Returned
    /\ Len(stmts) = 3
    /\ Kind(1) = "while" /\ Kind(2) = "while" /\ Kind(3) = "stmt"
    /\ BodyRange(1) = <<2, 2>>
    /\ BodyRange(2) = <<3, 3>>
    /\ ~Edge(2, 3)

====
